---- MODULE Spec2Model ----
(***************************************************************************)
(* Connection/transport management layer of OAPilot: MCPClient,            *)
(* MCPManager (backend/app/core/mcp_client.py) and STDIOBridge,            *)
(* AWSQMCPManager (backend/app/core/awsq_mcp_adapter.py).                  *)
(*                                                                         *)
(* The managers are asyncio code: a coroutine runs without interruption    *)
(* until it awaits something that really suspends (a contended lock, an    *)
(* HTTP request, a session close, a subprocess).  One action of the model  *)
(* is one such uninterrupted run of one coroutine.  The operators written  *)
(* in lower case (add_server, connect_finish, ...) are state transformers  *)
(* S -> S translated from the methods of the same name; the actions apply  *)
(* them to the current state and commit the result.                        *)
(*                                                                         *)
(* self.clients is a dict; the model keeps it as the sequence of its       *)
(* values in insertion order, which is the order Python iterates in.  A    *)
(* dict iterator is (used, pos, len) as in CPython's dictiter object;      *)
(* pos counts live entries already passed (table resizes during a          *)
(* suspended iteration are not modelled).                                  *)
(***************************************************************************)
EXTENDS Integers, Sequences, FiniteSets, TLC

\* ---------------------------------------------------------------- bounds
NumIds == 4          \* server ids / names 1..NumIds
NumTasks == 2        \* coroutines that run concurrently under Spec
NumCallers == 5      \* concurrent add_server callers under SpecC2
MaxBridges == 2      \* STDIOBridge objects that exist at the same time
MaxCfg == 1          \* server entries in one load under SpecAwsq
MaxOps == 4          \* operations invoked in one behaviour of Spec
MaxSeqOps == 6       \* operations invoked in one behaviour of SpecSeq
MaxAwsqOps == 3      \* operations invoked in one behaviour of SpecAwsq
MaxLoadCfg == 2      \* server entries in one load under SpecLoad
MaxLoadOps == 2      \* load_awsq_configurations calls under SpecLoad
NumHandlers == 2     \* HTTP requests a bridge can have in work at a time
MaxReqId == 2        \* JSON-RPC ids 1..MaxReqId of the requests POSTed
MaxBridgeOps == 4    \* start, stop and POST calls in one behaviour
MaxEchoOps == 10     \* start and POST calls in one behaviour of SpecEcho
NumClientCallers == 2 \* coroutines that use one MCPClient concurrently
MaxClientOps == 4    \* calls made on that client in one behaviour
MaxEntries == 2      \* entries of mcpServers in one configuration
MaxRestartOps == 3   \* load and restart calls in one behaviour of SpecRestart
MaxPostOps == 4      \* start and POST calls in one behaviour of SpecPosts
NumLockCallers == 2  \* callers of add_server and remove_server in SpecLock
MaxLockOps == 5      \* add_server and remove_server calls in one behaviour of SpecLock

\* ------------------------------------------------------ program constants
MAX_MCP_CONNECTIONS == 3

Max(a, b) == IF a >= b THEN a ELSE b

Ids == 1..NumIds
Tasks == 1..Max(NumTasks, NumCallers)
ObjIds == 1..(MAX_MCP_CONNECTIONS + Max(NumTasks, NumCallers))
BridgeIds == 1..MaxBridges

\* what a POST to the server can come back as, seen from _send_request and
\* its callers:
\*   "result"    status 200, a JSON object with a "result" object
\*   "error"     status 200, a JSON object without "result"
\*   "none"      non-200 status, timeout or transport exception: None
\*   "malformed" status 200, JSON that is not an object (`"result" in
\*               response` raises TypeError)
Responses == {"result", "error", "none", "malformed"}

VARIABLES
    clients,        \* MCPManager.clients: Seq(ObjIds), insertion order
    heap,           \* the MCPClient instances, by object id
    lock,           \* task holding MCPManager._lock, 0 when free
    waiters,        \* FIFO of tasks suspended in _lock.acquire()
    stdio_bridges,  \* AWSQMCPManager.stdio_bridges: Seq([name, br])
    bridges,        \* the STDIOBridge instances, by object id
    awsq_configs,   \* AWSQMCPManager.awsq_configs: name -> transport
    tasks,          \* the coroutines: operation, position, locals
    nops,           \* operations invoked so far (bounds the exploration)
    bridge,         \* one STDIOBridge instance taken by itself
    stdin,          \* lines written to its subprocess, not yet consumed
    stdout,         \* lines its subprocess wrote, not yet read
    reader,         \* the handler suspended in process.stdout.readline()
    handlers,       \* the _handle_request coroutines of the listener
    owner,          \* the coroutine that calls start() and stop()
    client,         \* one MCPClient instance taken by itself
    calls,          \* the coroutines that call its methods
    outgoing,       \* the ids of the requests _send_request has built, in order
    mcp_config,     \* a configuration handed to extract_mcp_servers
    mcp_servers     \* what extract_mcp_servers returned for it

\* the variables of the single bridge (the managers leave them alone)
bvars == <<bridge, stdin, stdout, reader, handlers, owner>>

\* the variables of the managers (the single bridge leaves them alone)
mvars == <<clients, heap, lock, waiters, stdio_bridges, bridges,
           awsq_configs, tasks>>

\* the variables of the single client
cvars == <<client, calls, outgoing>>

\* the variables of the configuration loader
xvars == <<mcp_config, mcp_servers>>

vars == <<clients, heap, lock, waiters, stdio_bridges, bridges,
          awsq_configs, tasks, nops, bridge, stdin, stdout, reader,
          handlers, owner, client, calls, outgoing, mcp_config, mcp_servers>>

\* ------------------------------------------------------------- MCPClient
NoEndpoint == [kind |-> "none", n |-> 0]
UrlOf(sid) == [kind |-> "url", n |-> sid]
BridgeUrl(b) == [kind |-> "bridge", n |-> b]

NoClient == [server_id |-> 0, endpoint |-> NoEndpoint, session |-> FALSE,
             is_connected |-> FALSE]

\* MCPClient.__init__
MCPClient(sid, ep) == [server_id |-> sid, endpoint |-> ep, session |-> FALSE,
                       is_connected |-> FALSE]

\* STDIOBridge.__init__
NoBridge == [name |-> 0, process |-> "none", bridge_server |-> "none"]
STDIOBridge(nm) == [name |-> nm, process |-> "none", bridge_server |-> "none"]

IdleTask == [op |-> "none", again |-> FALSE, pc |-> "idle", sid |-> 0,
             ep |-> NoEndpoint,
             obj |-> 0, br |-> 0, used |-> 0, pos |-> 0, len |-> 0,
             res |-> [i \in Ids |-> "absent"], resp |-> "unset",
             todo |-> 0, loaded |-> <<>>, ret |-> "none"]

State == [clients |-> clients, heap |-> heap, lock |-> lock,
          waiters |-> waiters, stdio_bridges |-> stdio_bridges,
          bridges |-> bridges, awsq_configs |-> awsq_configs,
          tasks |-> tasks, ovf |-> FALSE]

\* ------------------------------------------------------- dict operations
Keys(S) == {S.heap[S.clients[i]].server_id : i \in 1..Len(S.clients)}
HasKey(S, sid) == sid \in Keys(S)
IndexOf(S, sid) ==
    CHOOSE i \in 1..Len(S.clients) : S.heap[S.clients[i]].server_id = sid
ClientOf(S, sid) == S.clients[IndexOf(S, sid)]
RemoveAt(s, j) == [i \in 1..(Len(s) - 1) |-> IF i < j THEN s[i] ELSE s[i + 1]]

\* pcs at which a task holds an iterator over self.clients
ClientIterPcs == {"gar_wait", "hc_wait", "sd_close"}

dict_del_buggy(S, sid) == [S EXCEPT !.clients = <<>>]

\* del self.clients[server_id]: iterators that already passed the entry
\* keep pointing at the same next entry
dict_del(S, sid) ==
    LET j == IndexOf(S, sid) IN
    [S EXCEPT !.clients = RemoveAt(S.clients, j),
              !.tasks = [u \in Tasks |->
                  IF S.tasks[u].pc \in ClientIterPcs /\ S.tasks[u].pos >= j
                  THEN [S.tasks[u] EXCEPT !.pos = @ - 1]
                  ELSE S.tasks[u]]]

\* lowest free object slot
Alloc(S) == CHOOSE o \in ObjIds :
              /\ S.heap[o] = NoClient
              /\ \A p \in ObjIds : p < o => S.heap[p] # NoClient

\* --------------------------------------------------------- asyncio.Lock
can_acquire_buggy(S) == TRUE

\* Lock.acquire() takes the lock without suspending
can_acquire(S) == S.lock = 0 /\ S.waiters = <<>>

release(S) ==
    IF S.waiters = <<>>
    THEN [S EXCEPT !.lock = 0]
    ELSE [S EXCEPT !.lock = Head(S.waiters), !.waiters = Tail(S.waiters)]

\* ------------------------------------------------ MCPClient, synchronous
\* _send_request up to the point where the POST is awaited: the id is
\* taken; a client without session fails at once (AttributeError on None,
\* caught inside _send_request, which then returns None)
send_request_start(S, o) == S

Suspends(S, o) == S.heap[o].session

\* connect() up to the awaited initialize request
connect_start(S, o) ==
    send_request_start([S EXCEPT !.heap[o].session = TRUE], o)

ConnectOkBuggy(resp) == resp \in {"result", "error"}

\* connect(): the value it returns for the response of initialize
ConnectOk(resp) == resp = "result"

\* connect() from the response of initialize to its return
connect_finish(S, o, resp) ==
    IF ConnectOk(resp) THEN [S EXCEPT !.heap[o].is_connected = TRUE]
    ELSE IF resp = "malformed" THEN [S EXCEPT !.heap[o].is_connected = FALSE]
    ELSE S

\* disconnect() once session.close() has returned or raised
disconnect_finish(S, o, closed) ==
    IF closed
    THEN [S EXCEPT !.heap[o].session = FALSE, !.heap[o].is_connected = FALSE]
    ELSE S

\* disconnect() on a client that has no session
disconnect_nosession(S, o) == [S EXCEPT !.heap[o].is_connected = FALSE]

\* ----------------------------------------------------------- task helpers
SetTask(S, t, L) == [S EXCEPT !.tasks[t] = L]
Done(S, t, r) == [S EXCEPT !.tasks[t].pc = "done", !.tasks[t].ret = r,
                           !.tasks[t].obj = 0, !.tasks[t].br = 0,
                           !.tasks[t].used = 0, !.tasks[t].pos = 0,
                           !.tasks[t].len = 0, !.tasks[t].ep = NoEndpoint]

\* load_awsq_configurations at the top of the loop over the server entries
load_run(S, t) ==
    IF S.tasks[t].todo = 0 THEN Done(S, t, "ok")
    ELSE [S EXCEPT !.tasks[t].pc = "ld_next"]

\* the return of add_server to whoever called it
add_return(S, t, ok) ==
    IF S.tasks[t].op = "load"
    THEN load_run([S EXCEPT !.tasks[t].obj = 0,
                            !.tasks[t].loaded =
                                IF ok THEN Append(@, S.tasks[t].sid) ELSE @,
                            !.tasks[t].todo = @ - 1], t)
    ELSE Done(S, t, IF ok THEN "True" ELSE "False")

DuplicateIdBuggy(S, sid) == FALSE

\* add_server: `if server_id in self.clients`
DuplicateId(S, sid) == HasKey(S, sid)

CapacityReachedBuggy(S) == Len(S.clients) > MAX_MCP_CONNECTIONS

\* add_server: the connection limit check
CapacityReached(S) == Len(S.clients) >= MAX_MCP_CONNECTIONS

\* add_server, inside `async with self._lock`, up to `await client.connect()`
add_server_locked(S, t) ==
    LET sid == S.tasks[t].sid IN
    IF DuplicateId(S, sid) THEN add_return(release(S), t, FALSE)
    ELSE IF CapacityReached(S) THEN add_return(release(S), t, FALSE)
    ELSE LET o == Alloc(S)
             S1 == [S EXCEPT !.heap[o] = MCPClient(sid, S.tasks[t].ep),
                             !.tasks[t].obj = o,
                             !.tasks[t].pc = "add_connect"]
         IN connect_start(S1, o)

\* add_server from its first line
add_server(S, t) ==
    IF can_acquire(S)
    THEN add_server_locked([S EXCEPT !.lock = t], t)
    ELSE [S EXCEPT !.waiters = Append(@, t), !.tasks[t].pc = "add_lock"]

add_server_connected_held(S, t, resp) ==
    LET o == S.tasks[t].obj
        S1 == connect_finish([S EXCEPT !.tasks[t].resp = resp], o, resp)
    IN IF ConnectOk(resp)
       THEN add_return(release([S1 EXCEPT !.clients = Append(@, o)]), t, TRUE)
       ELSE add_return(S1, t, FALSE)

\* add_server from the return of client.connect() to its own return
add_server_connected(S, t, resp) ==
    LET o == S.tasks[t].obj
        S1 == connect_finish([S EXCEPT !.tasks[t].resp = resp], o, resp)
        S2 == IF ConnectOk(resp)
              THEN [S1 EXCEPT !.clients = Append(@, o)] ELSE S1
    IN add_return(release(S2), t, ConnectOk(resp))

RECURSIVE restart_removed(_, _)

\* the return of remove_server to whoever called it: restart_server turns
\* an exception into HTTPException(500) and otherwise goes on
remove_return(S, t, r) ==
    IF S.tasks[t].op = "restart"
    THEN IF r = "None" THEN restart_removed(S, t)
         ELSE Done(S, t, "raise_HTTPException")
    ELSE Done(S, t, r)

\* remove_server from `del self.clients[server_id]` on; the key can be gone
\* when shutdown cleared the dict while disconnect() was suspended
remove_server_del(S, t) ==
    LET sid == S.tasks[t].sid IN
    IF HasKey(S, sid)
    THEN remove_return(release(dict_del(S, sid)), t, "None")
    ELSE remove_return(release(S), t, "KeyError")

\* remove_server inside `async with self._lock`
remove_server_locked(S, t) ==
    LET sid == S.tasks[t].sid IN
    IF ~HasKey(S, sid) THEN remove_return(release(S), t, "None")
    ELSE LET o == ClientOf(S, sid) IN
         IF S.heap[o].session
         THEN [S EXCEPT !.tasks[t].obj = o, !.tasks[t].pc = "rm_close"]
         ELSE remove_server_del(disconnect_nosession(S, o), t)

\* remove_server from its first line
remove_server(S, t) ==
    IF can_acquire(S)
    THEN remove_server_locked([S EXCEPT !.lock = t], t)
    ELSE [S EXCEPT !.waiters = Append(@, t), !.tasks[t].pc = "rm_lock"]

\* remove_server from the return of client.disconnect() on
remove_server_closed(S, t, closed) ==
    remove_server_del(disconnect_finish(S, S.tasks[t].obj, closed), t)

\* --------------------------------------------------- MCPManager, reads
\* call_tool from _send_request("tools/call") on
call_tool_send(S, t) ==
    LET o == S.tasks[t].obj
        S1 == send_request_start(S, o)
    IN IF Suspends(S, o)
       THEN [S1 EXCEPT !.tasks[t].pc = "ct_wait"]
       ELSE Done(S1, t, "success_null")

\* call_tool from its first line: the lazy connect
call_tool(S, t) ==
    LET o == S.tasks[t].obj IN
    IF ~S.heap[o].is_connected
    THEN connect_start([S EXCEPT !.tasks[t].pc = "ct_connect"], o)
    ELSE call_tool_send(S, t)

ServerKnownBuggy(S, sid) == TRUE

\* execute_tool: `server_id not in self.clients`, negated
ServerKnown(S, sid) == HasKey(S, sid)

\* execute_tool from its first line
execute_tool(S, t) ==
    LET sid == S.tasks[t].sid IN
    IF ~ServerKnown(S, sid) THEN Done(S, t, "not_found")
    ELSE IF ~HasKey(S, sid) THEN Done(S, t, "raise_KeyError")
    ELSE LET o == ClientOf(S, sid)
             S1 == [S EXCEPT !.tasks[t].obj = o]
         IN IF ~S.heap[o].is_connected
            THEN connect_start([S1 EXCEPT !.tasks[t].pc = "ex_connect"], o)
            ELSE call_tool(S1, t)

ExecuteResultStrict(resp) ==
    CASE resp = "result" -> "success_result"
      [] OTHER -> "error_exception"

ExecuteResultNoTry(resp) ==
    CASE resp = "result" -> "success_result"
      [] resp = "malformed" -> "raise_TypeError"
      [] OTHER -> "success_null"

\* execute_tool: what the try/except around call_tool makes of the response
\* of tools/call ("malformed" makes call_tool raise TypeError)
ExecuteResult(resp) ==
    CASE resp = "result" -> "success_result"
      [] resp = "malformed" -> "error_exception"
      [] OTHER -> "success_null"

\* execute_tool from the response of tools/call on
execute_tool_answered(S, t, resp) ==
    Done([S EXCEPT !.tasks[t].resp = resp], t, ExecuteResult(resp))

\* dict iterator: what next() does (CPython dictiter_iternextitem)
IterNext(used, pos, len, n) ==
    IF used # n THEN "RuntimeError"
    ELSE IF pos >= n THEN "stop"
    ELSE IF len = 0 THEN "RuntimeError"
    ELSE "item"

IterInit(S, t, n) ==
    [S EXCEPT !.tasks[t].used = n, !.tasks[t].pos = 0, !.tasks[t].len = n]

IterStep(S, t, o) ==
    [S EXCEPT !.tasks[t].pos = @ + 1, !.tasks[t].len = @ - 1,
              !.tasks[t].obj = o]

HealthyBuggy(resp) == resp = "result"

\* health_check: true iff _send_request("ping") returned something
Healthy(resp) == resp # "none"

HealthResult(resp) == IF Healthy(resp) THEN "true" ELSE "false"

RECURSIVE health_check_all_run(_, _)
\* health_check_all: the for loop, from a call of next() to the next await
health_check_all_run(S, t) ==
    LET L == S.tasks[t]
        nx == IterNext(L.used, L.pos, L.len, Len(S.clients))
    IN IF nx = "RuntimeError" THEN Done(S, t, "raise_RuntimeError")
       ELSE IF nx = "stop" THEN Done(S, t, "ok")
       ELSE LET o == S.clients[L.pos + 1]
                S1 == send_request_start(IterStep(S, t, o), o)
            IN IF Suspends(S, o)
               THEN [S1 EXCEPT !.tasks[t].pc = "hc_wait"]
               ELSE health_check_all_run(
                        [S1 EXCEPT !.tasks[t].res[S.heap[o].server_id] =
                                       HealthResult("none")], t)

health_check_all(S, t) ==
    health_check_all_run(IterInit(S, t, Len(S.clients)), t)

health_check_all_abort(S, t, resp) ==
    IF Healthy(resp)
    THEN health_check_all_run(
             [S EXCEPT !.tasks[t].res[S.heap[S.tasks[t].obj].server_id] =
                           HealthResult(resp),
                       !.tasks[t].resp = resp], t)
    ELSE Done([S EXCEPT !.tasks[t].resp = resp], t, "raise_Exception")

\* health_check_all from the return of client.health_check() on
health_check_all_answered(S, t, resp) ==
    LET o == S.tasks[t].obj IN
    health_check_all_run(
        [S EXCEPT !.tasks[t].res[S.heap[o].server_id] = HealthResult(resp),
                  !.tasks[t].resp = resp], t)

ListResultSkip(resp) == IF resp = "result" THEN "list" ELSE "absent"

\* list_resources: the list it returns ("malformed" raises before this)
ListResult(resp) == IF resp = "result" THEN "list" ELSE "empty"

RECURSIVE get_all_resources_run(_, _)
\* get_all_resources: the for loop, from a call of next() to the next await
get_all_resources_run(S, t) ==
    LET L == S.tasks[t]
        nx == IterNext(L.used, L.pos, L.len, Len(S.clients))
    IN IF nx = "RuntimeError" THEN Done(S, t, "raise_RuntimeError")
       ELSE IF nx = "stop" THEN Done(S, t, "ok")
       ELSE LET o == S.clients[L.pos + 1]
                S0 == IterStep(S, t, o)
            IN IF ~S.heap[o].is_connected
               THEN get_all_resources_run(S0, t)
               ELSE LET S1 == send_request_start(S0, o) IN
                    IF Suspends(S, o)
                    THEN [S1 EXCEPT !.tasks[t].pc = "gar_wait"]
                    ELSE get_all_resources_run(
                             [S1 EXCEPT !.tasks[t].res[S.heap[o].server_id] =
                                            ListResult("none")], t)

get_all_resources(S, t) ==
    get_all_resources_run(IterInit(S, t, Len(S.clients)), t)

get_all_resources_answered(S, t, resp) ==
    LET o == S.tasks[t].obj IN
    IF resp = "malformed"
    THEN Done([S EXCEPT !.tasks[t].resp = resp], t, "raise_TypeError")
    ELSE get_all_resources_run(
             [S EXCEPT !.tasks[t].res[S.heap[o].server_id] = ListResult(resp),
                       !.tasks[t].resp = resp], t)

\* ------------------------------------------------------------- shutdown
\* self.clients.clear()
clients_clear(S) == [S EXCEPT !.clients = <<>>]

bridges_clear_buggy(S) == S

\* self.stdio_bridges.clear()
bridges_clear(S) == [S EXCEPT !.stdio_bridges = <<>>]

RECURSIVE shutdown_clients_run(_, _)
\* MCPManager.shutdown: the for loop over self.clients.values(), then clear()
shutdown_clients_run(S, t) ==
    LET L == S.tasks[t]
        nx == IterNext(L.used, L.pos, L.len, Len(S.clients))
    IN IF nx = "RuntimeError" THEN Done(S, t, "raise_RuntimeError")
       ELSE IF nx = "stop" THEN Done(clients_clear(S), t, "None")
       ELSE LET o == S.clients[L.pos + 1]
                S0 == IterStep(S, t, o)
            IN IF S.heap[o].session
               THEN [S0 EXCEPT !.tasks[t].pc = "sd_close"]
               ELSE shutdown_clients_run(disconnect_nosession(S0, o), t)

\* MCPManager.shutdown from its first line
base_shutdown(S, t) ==
    shutdown_clients_run(IterInit(S, t, Len(S.clients)), t)

base_shutdown_closed(S, t, closed) ==
    shutdown_clients_run(disconnect_finish(S, S.tasks[t].obj, closed), t)

RECURSIVE shutdown_bridges_run(_, _, _)
RECURSIVE restart_stopped(_, _)

\* the return of STDIOBridge.stop to whoever called it: the loop of
\* shutdown, or restart_server
stop_return(S, t, plr) ==
    IF S.tasks[t].op = "restart" THEN restart_stopped(S, t)
    ELSE shutdown_bridges_run(S, t, plr)

stop_cleanup_buggy(S, t, plr) == stop_return(S, t, plr)

\* STDIOBridge.stop from `if self.bridge_server` on, then back to the caller
stop_cleanup(S, t, plr) ==
    LET b == S.tasks[t].br IN
    IF S.bridges[b].bridge_server = "up"
    THEN [S EXCEPT !.tasks[t].pc = "sd_cleanup"]
    ELSE stop_return(S, t, plr)

\* AWSQMCPManager.shutdown: the for loop over self.stdio_bridges.values()
\* with STDIOBridge.stop inlined, then clear() and super().shutdown().
\* plr: terminate() on a subprocess that has exited raises
\* ProcessLookupError (it may, once asyncio has dropped the process).
shutdown_bridges_run(S, t, plr) ==
    LET L == S.tasks[t]
        nx == IterNext(L.used, L.pos, L.len, Len(S.stdio_bridges))
    IN IF nx = "RuntimeError" THEN Done(S, t, "raise_RuntimeError")
       ELSE IF nx = "stop"
            THEN base_shutdown(bridges_clear([S EXCEPT !.tasks[t].br = 0]), t)
       ELSE LET b == S.stdio_bridges[L.pos + 1].br
                S0 == [S EXCEPT !.tasks[t].pos = @ + 1,
                                !.tasks[t].len = @ - 1,
                                !.tasks[t].br = b]
            IN CASE S.bridges[b].process = "running" ->
                        [S0 EXCEPT !.tasks[t].pc = "sd_wait"]
                 [] S.bridges[b].process = "exited" ->
                        IF plr THEN Done(S0, t, "raise_ProcessLookupError")
                        ELSE stop_cleanup(S0, t, plr)
                 [] OTHER -> stop_cleanup(S0, t, plr)

\* AWSQMCPManager.shutdown from its first line
shutdown(S, t, plr) ==
    shutdown_bridges_run(IterInit(S, t, Len(S.stdio_bridges)), t, plr)

\* from the return of process.wait()
shutdown_waited(S, t, plr) ==
    stop_cleanup([S EXCEPT !.bridges[S.tasks[t].br].process = "exited"], t, plr)

\* from the return of bridge_server.cleanup()
shutdown_cleaned(S, t, plr) ==
    stop_return(
        [S EXCEPT !.bridges[S.tasks[t].br].bridge_server = "closed"], t, plr)

\* ---------------------------------------------- load_awsq_configurations
BridgeIndex(S, nm) ==
    CHOOSE i \in 1..Len(S.stdio_bridges) : S.stdio_bridges[i].name = nm
HasBridge(S, nm) ==
    \E i \in 1..Len(S.stdio_bridges) : S.stdio_bridges[i].name = nm

\* self.stdio_bridges[name] = bridge
bridges_set(S, nm, b) ==
    IF HasBridge(S, nm)
    THEN [S EXCEPT !.stdio_bridges[BridgeIndex(S, nm)].br = b]
    ELSE [S EXCEPT !.stdio_bridges = Append(@, [name |-> nm, br |-> b])]

FreeBridges(S) == {b \in BridgeIds : S.bridges[b] = NoBridge}
AllocBridge(S) == CHOOSE b \in FreeBridges(S) :
                      \A c \in FreeBridges(S) : b <= c

\* the body of the loop for the server entry e, up to the first await
load_entry(S, t, e) ==
    LET S0 == [S EXCEPT !.awsq_configs[e.name] = e.transport,
                        !.tasks[t].sid = e.name]
    IN IF e.transport = "http"
       THEN add_server([S0 EXCEPT !.tasks[t].ep = UrlOf(e.name)], t)
       ELSE IF FreeBridges(S) = {}
            THEN [S EXCEPT !.ovf = TRUE]
            ELSE LET b == AllocBridge(S) IN
                 [S0 EXCEPT !.bridges[b] = STDIOBridge(e.name),
                            !.tasks[t].br = b,
                            !.tasks[t].pc = "ld_spawn"]

load_failed_buggy(S, t) == Done(S, t, "raise_Exception")

\* the except clause of the loop body: log, go on with the next entry
load_failed(S, t) ==
    load_run([S EXCEPT !.tasks[t].br = 0, !.tasks[t].todo = @ - 1], t)

\* STDIOBridge.start raises: load_awsq_configurations catches it in the
\* loop body, restart_server turns it into HTTPException(500)
start_failed(S, t) ==
    IF S.tasks[t].op = "restart"
    THEN Done(S, t, "raise_HTTPException")
    ELSE load_failed(S, t)

\* STDIOBridge.start from the return of create_subprocess_exec on
load_spawned(S, t, ok) ==
    IF ~ok THEN start_failed(S, t)
    ELSE [S EXCEPT !.bridges[S.tasks[t].br].process = "running",
                   !.tasks[t].pc = "ld_bind"]

\* STDIOBridge.start from the return of runner.setup()/site.start() on,
\* then the rest of the STDIO branch of the loop body
load_bound(S, t, ok) ==
    LET b == S.tasks[t].br IN
    IF ~ok THEN start_failed(S, t)
    ELSE LET S1 == [S EXCEPT !.bridges[b].bridge_server = "up"]
             S2 == bridges_set(S1, S.tasks[t].sid, b)
         IN add_server([S2 EXCEPT !.tasks[t].ep = BridgeUrl(b),
                                  !.tasks[t].br = 0], t)

load_awsq_configurations(S, t) == load_run(S, t)

\* ------------------------------------------------------- restart_server
\* del manager.stdio_bridges[server_name]
bridges_del(S, nm) ==
    [S EXCEPT !.stdio_bridges = RemoveAt(@, BridgeIndex(S, nm))]

\* restart_server (api/v1/awsq_mcp.py) from its first line: the endpoint
\* refuses a name without a bridge, then calls bridge.stop()
restart_server(S, t, plr) ==
    LET sid == S.tasks[t].sid IN
    IF ~HasBridge(S, sid) THEN Done(S, t, "not_a_bridge")
    ELSE LET b == S.stdio_bridges[BridgeIndex(S, sid)].br
             S0 == [S EXCEPT !.tasks[t].br = b]
         IN CASE S.bridges[b].process = "running" ->
                     [S0 EXCEPT !.tasks[t].pc = "sd_wait"]
              [] S.bridges[b].process = "exited" ->
                     IF plr THEN Done(S0, t, "raise_HTTPException")
                     ELSE stop_cleanup(S0, t, plr)
              [] OTHER -> stop_cleanup(S0, t, plr)

\* restart_server from the return of bridge.stop(): remove_server
restart_stopped(S, t) == remove_server([S EXCEPT !.tasks[t].br = 0], t)

\* restart_server from the return of remove_server: the bridge leaves the
\* map, a new STDIOBridge is built from the stored configuration and
\* started (a configuration without a command cannot be spawned)
restart_removed(S, t) ==
    LET sid == S.tasks[t].sid IN
    IF ~HasBridge(S, sid) THEN Done(S, t, "raise_HTTPException")
    ELSE LET S1 == bridges_del([S EXCEPT !.tasks[t].obj = 0], sid) IN
         IF S.awsq_configs[sid] = "none" THEN Done(S1, t, "not_found")
         ELSE IF S.awsq_configs[sid] = "http"
              THEN Done(S1, t, "raise_HTTPException")
         ELSE IF FreeBridges(S) = {} THEN [S EXCEPT !.ovf = TRUE]
         ELSE LET b == AllocBridge(S) IN
              [S1 EXCEPT !.bridges[b] = STDIOBridge(sid),
                         !.tasks[t].br = b,
                         !.tasks[t].pc = "ld_spawn"]

Transports == {"http", "stdio"}
Entries == [name : Ids, transport : Transports]

\* ------------------------------------------------------------ committing
\* Object ids carry no meaning: after every step the live MCPClient
\* instances are renumbered (the registered ones first, in dict order, then
\* the ones only a coroutine still refers to) and the dead ones are dropped.
InClients(S, o) == \E i \in 1..Len(S.clients) : S.clients[i] = o

Orphans(S) ==
    LET First(u) == /\ S.tasks[u].obj # 0
                    /\ ~InClients(S, S.tasks[u].obj)
                    /\ \A v \in Tasks : v < u => S.tasks[v].obj # S.tasks[u].obj
        ids == [u \in 1..Cardinality(Tasks) |-> u]
        sel == SelectSeq(ids, First)
    IN [i \in 1..Len(sel) |-> S.tasks[sel[i]].obj]

LiveOrder(S) == S.clients \o Orphans(S)

Rank(ord, o) == IF o = 0 THEN 0 ELSE CHOOSE i \in 1..Len(ord) : ord[i] = o

\* a bridge object lives while something refers to it or while it still
\* owns a subprocess or a listener
LiveBridge(S, b) ==
    \/ \E i \in 1..Len(S.stdio_bridges) : S.stdio_bridges[i].br = b
    \/ \E u \in Tasks : S.tasks[u].br = b
    \/ S.bridges[b].process = "running"
    \/ S.bridges[b].bridge_server = "up"

Commit(S) ==
    LET ord == LiveOrder(S) IN
    /\ ~S.ovf
    /\ clients' = [i \in 1..Len(S.clients) |-> i]
    /\ heap' = [o \in ObjIds |->
                   IF o <= Len(ord) THEN S.heap[ord[o]] ELSE NoClient]
    /\ lock' = S.lock
    /\ waiters' = S.waiters
    /\ stdio_bridges' = S.stdio_bridges
    /\ bridges' = [b \in BridgeIds |->
                      IF LiveBridge(S, b) THEN S.bridges[b] ELSE NoBridge]
    /\ awsq_configs' = S.awsq_configs
    /\ tasks' = [u \in Tasks |->
                   [S.tasks[u] EXCEPT !.obj = Rank(ord, S.tasks[u].obj)]]
    /\ UNCHANGED <<bvars, cvars, xvars>>

\* the state in which coroutine t has just been created for operation op;
\* again: op is shutdown and the last thing this caller did was a shutdown
Begin(t, op, sid, ep) ==
    [State EXCEPT !.tasks[t] = [IdleTask EXCEPT !.op = op, !.sid = sid,
                                                !.ep = ep, !.pc = "run",
                                                !.again = (op = "shutdown" /\
                                                           tasks[t].op = op)]]

\* ============================================ one STDIOBridge by itself
\* A STDIOBridge, the subprocess it spawns and the aiohttp listener that
\* runs one _handle_request coroutine per POST.
HandlerIds == 1..NumHandlers
ReqIds == 1..MaxReqId
Params == {"a", "b"}

\* JSON values: JSON-RPC requests, results and error objects
NoJson == [kind |-> "none", id |-> 0, val |-> "none"]
Request(i, p) == [kind |-> "request", id |-> i, val |-> p]
Result(i, p) == [kind |-> "result", id |-> i, val |-> p]
ErrorObject(code) == [kind |-> "error", id |-> 0, val |-> code]
\* a POST body that is not JSON
NotJson == [kind |-> "notjson", id |-> 0, val |-> "none"]

Requests == {Request(i, p) : i \in ReqIds, p \in Params}

\* lines on the pipes: the JSON text of a value, text that is not JSON,
\* and the empty bytes readline() returns at end of file
GarbageLine == [kind |-> "garbage", value |-> NoJson]
EofLine == [kind |-> "eof", value |-> NoJson]

\* json.dumps(data).encode() + b'\n'
json_dumps_line(v) == [kind |-> "json", value |-> v]

\* json.loads(line.decode()) where it does not raise
json_loads(line) == line.value

\* STDIOBridge.__init__; signals and cleanups count the terminate() calls
\* that went through and the cleanup() calls of the listener
NewBridge == [process |-> "none", bridge_server |-> "none",
              signals |-> 0, cleanups |-> 0]

IdleHandler == [pc |-> "idle", req |-> NoJson, status |-> 0, body |-> NoJson,
                wrote |-> 0, read |-> 0]

IdleOwner == [pc |-> "idle", op |-> "none", ret |-> "none"]

\* web.json_response(body, status=status)
respond(hd, status, body) ==
    [hd EXCEPT !.pc = "responded", !.status = status, !.body = body]

\* the handler of asyncio.TimeoutError
TimeoutResponse(hd) == respond(hd, 504, ErrorObject("-32000"))

ErrorResponseBuggy(hd) == respond(hd, 502, ErrorObject("-32603"))

\* the handler of every other exception
ErrorResponse(hd) == respond(hd, 500, ErrorObject("-32603"))

read_response_buggy(hd, line) ==
    respond([hd EXCEPT !.read = @ + 1], 200, hd.req)

\* _handle_request from the return of readline() on
read_response(hd, line) ==
    IF line.kind = "json"
    THEN respond([hd EXCEPT !.read = @ + 1], 200, json_loads(line))
    ELSE IF line.kind = "eof" THEN ErrorResponse(hd)
    ELSE ErrorResponse([hd EXCEPT !.read = @ + 1])

\* the subprocess the round trip is about: it answers a request line with
\* the line of {jsonrpc, id: the same id, result: the same params}
server_line(line) ==
    IF line.kind = "json"
    THEN json_dumps_line(Result(json_loads(line).id, json_loads(line).val))
    ELSE json_dumps_line(ErrorObject("-32700"))

BridgeFree(cap) == nops < cap /\ nops' = nops + 1

\* a POST reaches the listener: _handle_request up to its first suspension.
\* The coroutine takes the first handler record that no running coroutine
\* holds.  The write to an exited subprocess fails in the transport and
\* drain() raises ConnectionResetError; a readline() while another
\* coroutine waits in readline() raises RuntimeError.
HandleRequest(h, data, cap) ==
    /\ bridge.bridge_server = "up"
    /\ handlers[h].pc \in {"idle", "responded"}
    /\ \A g \in 1..(h - 1) : handlers[g].pc \notin {"idle", "responded"}
    /\ BridgeFree(cap)
    /\ LET hd == [IdleHandler EXCEPT !.req = data]
           hw == [hd EXCEPT !.wrote = 1]
       IN IF data.kind = "notjson"
          THEN /\ handlers' = [handlers EXCEPT ![h] = ErrorResponse(hd)]
               /\ UNCHANGED <<stdin, stdout, reader>>
          ELSE IF bridge.process # "running"
          THEN /\ handlers' = [handlers EXCEPT ![h] = ErrorResponse(hd)]
               /\ UNCHANGED <<stdin, stdout, reader>>
          ELSE IF stdout # <<>>
          THEN /\ handlers' = [handlers EXCEPT
                                  ![h] = read_response(hw, Head(stdout))]
               /\ stdin' = Append(stdin, json_dumps_line(data))
               /\ stdout' = Tail(stdout)
               /\ UNCHANGED reader
          ELSE IF reader # 0
          THEN /\ handlers' = [handlers EXCEPT ![h] = ErrorResponse(hw)]
               /\ stdin' = Append(stdin, json_dumps_line(data))
               /\ UNCHANGED <<stdout, reader>>
          ELSE /\ handlers' = [handlers EXCEPT
                                  ![h] = [hw EXCEPT !.pc = "read_wait"]]
               /\ stdin' = Append(stdin, json_dumps_line(data))
               /\ reader' = h
               /\ UNCHANGED stdout
    /\ UNCHANGED <<bridge, owner>>
    /\ UNCHANGED <<mvars, cvars, xvars>>

\* readline() returns to the suspended handler: a line, or end of file
ReadLine(h) ==
    /\ handlers[h].pc = "read_wait"
    /\ reader = h
    /\ stdout # <<>> \/ bridge.process = "exited"
    /\ LET line == IF stdout # <<>> THEN Head(stdout) ELSE EofLine IN
       /\ handlers' = [handlers EXCEPT ![h] = read_response(handlers[h], line)]
       /\ stdout' = IF stdout # <<>> THEN Tail(stdout) ELSE stdout
    /\ reader' = 0
    /\ UNCHANGED <<bridge, stdin, owner, nops>>
    /\ UNCHANGED <<mvars, cvars, xvars>>

\* config.timeout passes with no line on stdout: wait_for cancels readline()
ReadTimeout(h) ==
    /\ handlers[h].pc = "read_wait"
    /\ reader = h
    /\ stdout = <<>>
    /\ handlers' = [handlers EXCEPT ![h] = TimeoutResponse(handlers[h])]
    /\ reader' = 0
    /\ UNCHANGED <<bridge, stdin, stdout, owner, nops>>
    /\ UNCHANGED <<mvars, cvars, xvars>>

\* the subprocess takes a line from its stdin and prints its answer
SubprocessAnswers ==
    /\ bridge.process = "running"
    /\ stdin # <<>>
    /\ stdout' = Append(stdout, server_line(Head(stdin)))
    /\ stdin' = Tail(stdin)
    /\ UNCHANGED <<bridge, reader, handlers, owner, nops>>
    /\ UNCHANGED <<mvars, cvars, xvars>>

\* the subprocess takes a line from its stdin and prints something that is
\* not JSON
SubprocessGarbles ==
    /\ bridge.process = "running"
    /\ stdin # <<>>
    /\ stdout' = Append(stdout, GarbageLine)
    /\ stdin' = Tail(stdin)
    /\ UNCHANGED <<bridge, reader, handlers, owner, nops>>
    /\ UNCHANGED <<mvars, cvars, xvars>>

\* the subprocess exits by itself
SubprocessExits ==
    /\ bridge.process = "running"
    /\ owner.pc \notin {"st_bind", "sp_wait"}
    /\ bridge' = [bridge EXCEPT !.process = "exited"]
    /\ stdin' = <<>>
    /\ UNCHANGED <<stdout, reader, handlers, owner, nops>>
    /\ UNCHANGED <<mvars, cvars, xvars>>

OwnerDone(op, r) == [pc |-> "done", op |-> op, ret |-> r]

\* start() up to create_subprocess_exec
BridgeStart(cap) ==
    /\ owner.pc \in {"idle", "done"}
    /\ bridge.process = "none" /\ bridge.bridge_server = "none"
    /\ BridgeFree(cap)
    /\ owner' = [pc |-> "st_spawn", op |-> "start", ret |-> "none"]
    /\ UNCHANGED <<bridge, stdin, stdout, reader, handlers>>
    /\ UNCHANGED <<mvars, cvars, xvars>>

\* start() from the return of create_subprocess_exec to runner.setup()
BridgeSpawned(ok) ==
    /\ owner.pc = "st_spawn"
    /\ IF ok
       THEN /\ bridge' = [bridge EXCEPT !.process = "running"]
            /\ owner' = [owner EXCEPT !.pc = "st_bind"]
       ELSE /\ owner' = OwnerDone("start", "raise_Exception")
            /\ UNCHANGED bridge
    /\ UNCHANGED <<stdin, stdout, reader, handlers, nops>>
    /\ UNCHANGED <<mvars, cvars, xvars>>

\* start() from the port selection and the listener setup to its return
BridgeBound(ok) ==
    /\ owner.pc = "st_bind"
    /\ IF ok
       THEN /\ bridge' = [bridge EXCEPT !.bridge_server = "up"]
            /\ owner' = OwnerDone("start", "url")
       ELSE /\ owner' = OwnerDone("start", "raise_Exception")
            /\ UNCHANGED bridge
    /\ UNCHANGED <<stdin, stdout, reader, handlers, nops>>
    /\ UNCHANGED <<mvars, cvars, xvars>>

\* stop() from `if self.bridge_server` on: an AppRunner is true whether it
\* is set up or cleaned up
stop_listener(b, op) ==
    IF b.bridge_server # "none"
    THEN [pc |-> "sp_cleanup", op |-> op, ret |-> "none"]
    ELSE OwnerDone(op, "None")

\* stop() from its first line; plr: terminate() on a process that has
\* exited raises ProcessLookupError once asyncio has dropped it, else it
\* sends nothing, and wait() returns at once
BridgeStop(plr, cap) ==
    /\ owner.pc \in {"idle", "done"}
    /\ BridgeFree(cap)
    /\ LET op == IF owner.op = "stop" /\ owner.ret = "None"
                 THEN "stop_again" ELSE "stop"
       IN CASE bridge.process = "none" ->
                 /\ owner' = stop_listener(bridge, op)
                 /\ UNCHANGED bridge
            [] bridge.process = "running" ->
                 /\ bridge' = [bridge EXCEPT !.signals = @ + 1]
                 /\ owner' = [pc |-> "sp_wait", op |-> op, ret |-> "none"]
            [] OTHER ->
                 IF plr
                 THEN /\ owner' = OwnerDone(op, "raise_ProcessLookupError")
                      /\ UNCHANGED bridge
                 ELSE /\ owner' = stop_listener(bridge, op)
                      /\ UNCHANGED bridge
    /\ UNCHANGED <<stdin, stdout, reader, handlers>>
    /\ UNCHANGED <<mvars, cvars, xvars>>

\* stop() from the return of process.wait()
BridgeStopWaited ==
    /\ owner.pc = "sp_wait"
    /\ bridge' = [bridge EXCEPT !.process = "exited"]
    /\ owner' = stop_listener(bridge, owner.op)
    /\ stdin' = <<>>
    /\ UNCHANGED <<stdout, reader, handlers, nops>>
    /\ UNCHANGED <<mvars, cvars, xvars>>

\* stop() from the return of bridge_server.cleanup()
BridgeStopCleaned ==
    /\ owner.pc = "sp_cleanup"
    /\ bridge' = [bridge EXCEPT !.bridge_server = "closed",
                                !.cleanups = @ + 1]
    /\ owner' = OwnerDone(owner.op, "None")
    /\ UNCHANGED <<stdin, stdout, reader, handlers, nops>>
    /\ UNCHANGED <<mvars, cvars, xvars>>

\* ============================================== one MCPClient by itself
\* An MCPClient and the coroutines that call its methods directly.  The
\* operators take and return K = [client, calls, outgoing].
CallerIds == 1..NumClientCallers

\* the operations that connect lazily before their own request
LazyOps == {"list_resources", "read_resource", "list_tools", "call_tool",
            "list_prompts", "get_prompt"}

\* the lazily connecting operations the callers invoke: one that returns a
\* list and one that returns a value (the bodies of the three list_*
\* methods differ in the method string and the key read from the result
\* only, as do those of read_resource, call_tool and get_prompt)
InputOps == {"list_tools", "call_tool"}

\* MCPClient.__init__; session is "none", "open", or "closed" while the
\* attribute still holds a ClientSession whose close() has begun
\* capabilities: TRUE once connect() has stored those of a server
NewClient == [session |-> "none", capabilities |-> FALSE,
              is_connected |-> FALSE, request_id |-> 0]

\* id: the id of the request the coroutine has built and not yet seen
\* answered
IdleCall == [pc |-> "idle", op |-> "none", id |-> 0, ret |-> "none"]

ClientState == [client |-> client, calls |-> calls, outgoing |-> outgoing]

\* the coroutine returns r (or raises, "raise_..."): its frame is gone,
\* what is left is what the caller got
Returns(K, c, r) ==
    [K EXCEPT !.calls[c] = [IdleCall EXCEPT !.pc = "done", !.ret = r]]

\* _send_request up to session.post: the id is taken and the request is
\* built with it
send_request(K, c) ==
    LET id == K.client.request_id + 1 IN
    [K EXCEPT !.client.request_id = id,
              !.outgoing = Append(@, id),
              !.calls[c].id = id]

\* session.post suspends only on an open session: None has no post and a
\* closed session raises RuntimeError, both end in `return None` at once
Posted(K) == K.client.session = "open"

\* what the operation returns for the response of its own request
OperationResult(op, resp) ==
    IF op = "health_check" THEN IF Healthy(resp) THEN "True" ELSE "False"
    ELSE IF resp = "malformed" THEN "raise_TypeError"
    ELSE IF resp = "result" THEN "value"
    ELSE IF op \in {"list_resources", "list_tools", "list_prompts"}
    THEN "empty" ELSE "None"

request_answered_retry(K, c, resp) ==
    IF resp = "none"
    THEN [send_request(K, c) EXCEPT !.calls[c].pc = "req_wait"]
    ELSE Returns(K, c, OperationResult(K.calls[c].op, resp))

request_answered_buggy(K, c, resp) ==
    Returns([K EXCEPT !.client.is_connected = (resp = "result") \/ @], c,
            OperationResult(K.calls[c].op, resp))

\* list_*, read_resource, call_tool, get_prompt, health_check from the
\* return of their own _send_request on
request_answered(K, c, resp) ==
    Returns(K, c, OperationResult(K.calls[c].op, resp))

\* the operation's own _send_request, up to its suspension or to the return
request(K, c) ==
    LET K1 == send_request(K, c) IN
    IF Posted(K1) THEN [K1 EXCEPT !.calls[c].pc = "req_wait"]
    ELSE request_answered(K1, c, "none")

\* connect() from the return of _send_request("initialize") to its own
\* return, and on into the operation that called it
initialize_answered(K, c, resp) ==
    LET K1 == [K EXCEPT !.client.capabilities = ConnectOk(resp) \/ @,
                        !.client.is_connected =
                            IF ConnectOk(resp) THEN TRUE
                            ELSE IF resp = "malformed" THEN FALSE ELSE @]
    IN IF K.calls[c].op = "connect"
       THEN Returns(K1, c, IF ConnectOk(resp) THEN "True" ELSE "False")
       ELSE request(K1, c)

\* connect() up to the awaited initialize request
connect(K, c) ==
    LET K1 == send_request([K EXCEPT !.client.session =
                                       IF @ = "none" THEN "open" ELSE @], c)
    IN IF Posted(K1) THEN [K1 EXCEPT !.calls[c].pc = "init_wait"]
       ELSE initialize_answered(K1, c, "none")

\* `if not self.is_connected: await self.connect()` and the request
operation(K, c) ==
    IF K.client.is_connected THEN request(K, c) ELSE connect(K, c)

\* disconnect() up to the awaited session.close(); closing a session that
\* is closed already does not suspend
disconnect(K, c) ==
    IF K.client.session = "open"
    THEN [K EXCEPT !.client.session = "closed", !.calls[c].pc = "close_wait"]
    ELSE Returns([K EXCEPT !.client.session = "none",
                           !.client.is_connected = FALSE], c, "None")

disconnect_closed_buggy(K, c, how) ==
    Returns([K EXCEPT !.client.session = "none",
                      !.client.is_connected = FALSE,
                      !.client.request_id = 0], c, "None")

\* disconnect() from the return of session.close() on; how: it returned,
\* or it raised and left the session open or closed
disconnect_closed(K, c, how) ==
    IF how = "closed"
    THEN Returns([K EXCEPT !.client.session = "none",
                           !.client.is_connected = FALSE], c, "None")
    ELSE Returns([K EXCEPT !.client.session =
                               IF @ = "none" THEN @
                               ELSE IF how = "raised_open" THEN "open"
                               ELSE "closed"], c, "None")

\* a call is made: a new coroutine, which takes the first record that is
\* not held by a coroutine still running (which record it takes makes no
\* difference to the client)
ClientFree(c, cap) ==
    /\ calls[c].pc \in {"idle", "done"}
    /\ \A d \in 1..(c - 1) : calls[d].pc \notin {"idle", "done"}
    /\ nops < cap
    /\ nops' = nops + 1

ClientBegin(c, op) ==
    [ClientState EXCEPT !.calls[c] = [IdleCall EXCEPT !.op = op]]

ClientCommit(K) ==
    /\ client' = K.client
    /\ calls' = K.calls
    /\ outgoing' = K.outgoing
    /\ UNCHANGED <<mvars, bvars, xvars>>

ClientConnect(c, cap) ==
    /\ ClientFree(c, cap)
    /\ ClientCommit(connect(ClientBegin(c, "connect"), c))

ClientDisconnect(c, cap) ==
    /\ ClientFree(c, cap)
    /\ ClientCommit(disconnect(ClientBegin(c, "disconnect"), c))

ClientOperation(c, op, cap) ==
    /\ ClientFree(c, cap)
    /\ ClientCommit(operation(ClientBegin(c, op), c))

ClientHealthCheck(c, cap) ==
    /\ ClientFree(c, cap)
    /\ ClientCommit(request(ClientBegin(c, "health_check"), c))

\* the POST of initialize comes back
ClientInitializeAnswered(c, resp) ==
    /\ calls[c].pc = "init_wait"
    /\ UNCHANGED nops
    /\ ClientCommit(initialize_answered(ClientState, c, resp))

\* the POST of the operation's own request comes back
ClientRequestAnswered(c, resp) ==
    /\ calls[c].pc = "req_wait"
    /\ UNCHANGED nops
    /\ ClientCommit(request_answered(ClientState, c, resp))

\* session.close() returns or raises
ClientSessionClosed(c, how) ==
    /\ calls[c].pc = "close_wait"
    /\ UNCHANGED nops
    /\ ClientCommit(disconnect_closed(ClientState, c, how))

\* =================================================== AWSQConfigLoader
\* A parsed configuration file is [present, servers]: whether it has the
\* key "mcpServers", and the items of that object in file order (a JSON
\* object read by json.load has each key once).  A value is a JSON object
\* with its "type" member ("absent": no such member), or something that
\* is not an object.
RawTypes == {"http", "stdio", "HTTP", "absent"}
RawValues == [kind : {"object"}, type : RawTypes]
                 \cup [kind : {"string", "null"}, type : {"absent"}]

NoServers == [present |-> FALSE, servers |-> <<>>]

\* config.get raises AttributeError on what is not a dict
FromDictRaises(v) == v.kind # "object"

from_dict_buggy(name, v) ==
    [name |-> name,
     transport_type |-> IF v.type \in {"http", "HTTP"} THEN "http" ELSE "stdio"]

\* AWSQMCPServerConfig.from_dict, where it does not raise
from_dict(name, v) ==
    [name |-> name,
     transport_type |-> IF v.type = "http" THEN "http" ELSE "stdio"]

RECURSIVE extract_items(_, _)
\* the for loop of extract_mcp_servers over the items left, with
\* mcp_servers as built so far
extract_items(items, servers) ==
    IF items = <<>> THEN servers
    ELSE LET it == Head(items) IN
         IF FromDictRaises(it.value)
         THEN extract_items(Tail(items), servers)
         ELSE extract_items(Tail(items),
                            Append(servers, from_dict(it.name, it.value)))

extract_mcp_servers(config) ==
    IF ~config.present THEN <<>> ELSE extract_items(config.servers, <<>>)

\* the configurations with up to MaxEntries entries
RawItems == [name : Ids, value : RawValues]
RawConfigs ==
    {NoServers} \cup
    {[present |-> TRUE, servers |-> s] :
        s \in {q \in UNION {[1..n -> RawItems] : n \in 0..MaxEntries} :
                  \A i, j \in DOMAIN q : i # j => q[i].name # q[j].name}}

\* extract_mcp_servers is called with a configuration; the function keeps
\* nothing from one call to the next, so a behaviour holds one call
ExtractMcpServers(config) ==
    /\ mcp_config = NoServers
    /\ mcp_servers = <<>>
    /\ mcp_config' = config
    /\ mcp_servers' = extract_mcp_servers(config)
    /\ UNCHANGED <<mvars, bvars, cvars, nops>>

\* ------------------------------------------------------------------ Init
Init ==
    /\ clients = <<>>
    /\ heap = [o \in ObjIds |-> NoClient]
    /\ lock = 0
    /\ waiters = <<>>
    /\ stdio_bridges = <<>>
    /\ bridges = [b \in BridgeIds |-> NoBridge]
    /\ awsq_configs = [i \in Ids |-> "none"]
    /\ tasks = [t \in Tasks |-> IdleTask]
    /\ nops = 0
    /\ bridge = NewBridge
    /\ stdin = <<>>
    /\ stdout = <<>>
    /\ reader = 0
    /\ handlers = [h \in HandlerIds |-> IdleHandler]
    /\ owner = IdleOwner
    /\ client = NewClient
    /\ calls = [c \in CallerIds |-> IdleCall]
    /\ outgoing = <<>>
    /\ mcp_config = NoServers
    /\ mcp_servers = <<>>

\* --------------------------------------------------------------- actions
\* a caller invokes an operation: at most cap invocations in a behaviour
Free(t, cap) ==
    /\ tasks[t].pc \in {"idle", "done"}
    /\ nops < cap
    /\ nops' = nops + 1

\* a suspended coroutine is resumed
At(t, pc) == tasks[t].pc = pc /\ UNCHANGED nops

AddServer(t, sid, cap) ==
    /\ Free(t, cap)
    /\ Commit(add_server(Begin(t, "add", sid, UrlOf(sid)), t))

AddServerLocked(t) ==
    /\ At(t, "add_lock")
    /\ lock = t
    /\ Commit(add_server_locked(State, t))

AddServerConnected(t, resp) ==
    /\ At(t, "add_connect")
    /\ Commit(add_server_connected(State, t, resp))

RemoveServer(t, sid, cap) ==
    /\ Free(t, cap)
    /\ Commit(remove_server(Begin(t, "remove", sid, NoEndpoint), t))

RemoveServerLocked(t) ==
    /\ At(t, "rm_lock")
    /\ lock = t
    /\ Commit(remove_server_locked(State, t))

RemoveServerClosed(t, closed) ==
    /\ At(t, "rm_close")
    /\ Commit(remove_server_closed(State, t, closed))

ExecuteTool(t, sid, cap) ==
    /\ Free(t, cap)
    /\ Commit(execute_tool(Begin(t, "execute", sid, NoEndpoint), t))

ExecuteToolConnected(t, resp) ==
    /\ At(t, "ex_connect")
    /\ Commit(call_tool(connect_finish(State, tasks[t].obj, resp), t))

CallToolConnected(t, resp) ==
    /\ At(t, "ct_connect")
    /\ Commit(call_tool_send(connect_finish(State, tasks[t].obj, resp), t))

CallToolAnswered(t, resp) ==
    /\ At(t, "ct_wait")
    /\ Commit(execute_tool_answered(State, t, resp))

HealthCheckAll(t, cap) ==
    /\ Free(t, cap)
    /\ Commit(health_check_all(Begin(t, "health", 0, NoEndpoint), t))

HealthCheckAnswered(t, resp) ==
    /\ At(t, "hc_wait")
    /\ Commit(health_check_all_answered(State, t, resp))

GetAllResources(t, cap) ==
    /\ Free(t, cap)
    /\ Commit(get_all_resources(Begin(t, "resources", 0, NoEndpoint), t))

ListResourcesAnswered(t, resp) ==
    /\ At(t, "gar_wait")
    /\ Commit(get_all_resources_answered(State, t, resp))

Shutdown(t, plr, cap) ==
    /\ Free(t, cap)
    /\ Commit(shutdown(Begin(t, "shutdown", 0, NoEndpoint), t, plr))

ShutdownProcessWaited(t, plr) ==
    /\ At(t, "sd_wait")
    /\ Commit(shutdown_waited(State, t, plr))

ShutdownBridgeCleaned(t, plr) ==
    /\ At(t, "sd_cleanup")
    /\ Commit(shutdown_cleaned(State, t, plr))

ShutdownClientClosed(t, closed) ==
    /\ At(t, "sd_close")
    /\ Commit(base_shutdown_closed(State, t, closed))

LoadConfigurations(t, n, cap) ==
    /\ Free(t, cap)
    /\ Commit(load_awsq_configurations(
           [Begin(t, "load", 0, NoEndpoint) EXCEPT !.tasks[t].todo = n], t))

LoadEntry(t, e) ==
    /\ At(t, "ld_next")
    /\ Commit(load_entry(State, t, e))

LoadBridgeSpawned(t, ok) ==
    /\ At(t, "ld_spawn")
    /\ Commit(load_spawned(State, t, ok))

LoadBridgeBound(t, ok) ==
    /\ At(t, "ld_bind")
    /\ Commit(load_bound(State, t, ok))

RestartServer(t, sid, plr, cap) ==
    /\ Free(t, cap)
    /\ Commit(restart_server(Begin(t, "restart", sid, NoEndpoint), t, plr))

\* the subprocess of a bridge exits by itself
BridgeProcessExits(b) ==
    /\ bridges[b].process = "running"
    /\ bridges' = [bridges EXCEPT ![b].process = "exited"]
    /\ UNCHANGED <<clients, heap, lock, waiters, stdio_bridges,
                   awsq_configs, tasks, nops, bvars, cvars, xvars>>

\* Ids that occur in the current state.  The code only compares ids, so
\* the ids that occur nowhere are interchangeable: a caller that brings a
\* new id brings the smallest of them.
UsedIds ==
    Keys(State)
    \cup {tasks[u].sid : u \in Tasks}
    \cup {i \in Ids : \E u \in Tasks : tasks[u].res[i] # "absent"}
    \cup {i \in Ids : awsq_configs[i] # "none"}
    \cup {stdio_bridges[i].name : i \in 1..Len(stdio_bridges)}
    \cup {bridges[b].name : b \in BridgeIds}
    \cup UNION {{tasks[u].loaded[i] : i \in 1..Len(tasks[u].loaded)} : u \in Tasks}

Fresh(used) == {i \in Ids \ used : \A j \in Ids \ used : i <= j}

InputIds == LET used == UsedIds IN (used \cap Ids) \cup Fresh(used)

\* the server entries the configuration files can hold
InputEntries == {e \in Entries : e.name \in InputIds}

\* a caller invokes an operation of MCPManager
Invoke(t, cap) ==
    \/ \E sid \in InputIds : AddServer(t, sid, cap)
    \/ \E sid \in InputIds : RemoveServer(t, sid, cap)
    \/ \E sid \in InputIds : ExecuteTool(t, sid, cap)
    \/ HealthCheckAll(t, cap)
    \/ GetAllResources(t, cap)
    \/ \E plr \in BOOLEAN : Shutdown(t, plr, cap)

\* an awaited request, close or connect of coroutine t returns
Resume(t) ==
    \/ \E resp \in Responses : AddServerConnected(t, resp)
    \/ \E closed \in BOOLEAN : RemoveServerClosed(t, closed)
    \/ \E resp \in Responses : CallToolAnswered(t, resp)
    \/ \E resp \in Responses : HealthCheckAnswered(t, resp)
    \/ \E resp \in Responses : ListResourcesAnswered(t, resp)
    \/ \E closed \in BOOLEAN : ShutdownClientClosed(t, closed)

\* a lazy connect() of coroutine t returns: execute_tool and call_tool
\* connect a client another coroutine has disconnected meanwhile
Reconnected(t) ==
    \/ \E resp \in Responses : ExecuteToolConnected(t, resp)
    \/ \E resp \in Responses : CallToolConnected(t, resp)

\* coroutine t, queued on the lock, gets it
Granted(t) ==
    \/ AddServerLocked(t)
    \/ RemoveServerLocked(t)

\* the configuration-driven part: load_awsq_configurations and the bridges
InvokeAwsq(t, cap) ==
    \E n \in 1..MaxCfg : LoadConfigurations(t, n, cap)

ResumeAwsq(t) ==
    \/ \E e \in InputEntries : LoadEntry(t, e)
    \/ \E ok \in BOOLEAN : LoadBridgeSpawned(t, ok)
    \/ \E ok \in BOOLEAN : LoadBridgeBound(t, ok)
    \/ \E plr \in BOOLEAN : ShutdownProcessWaited(t, plr)
    \/ \E plr \in BOOLEAN : ShutdownBridgeCleaned(t, plr)

\* Spec: NumTasks callers use one MCPManager concurrently
Next ==
    \E t \in 1..NumTasks :
        Invoke(t, MaxOps) \/ Resume(t) \/ Reconnected(t) \/ Granted(t)

Spec == Init /\ [][Next]_vars

\* SpecSeq: one caller, one operation at a time (every registered client
\* is connected then, and no lazy connect happens)
NextSeq == Invoke(1, MaxSeqOps) \/ Resume(1)

SpecSeq == Init /\ [][NextSeq]_vars

\* SpecAwsq: one caller of an AWSQMCPManager, one operation at a time
NextAwsq ==
    \/ InvokeAwsq(1, MaxAwsqOps)
    \/ ResumeAwsq(1)
    \/ \E resp \in Responses : AddServerConnected(1, resp)
    \/ \E plr \in BOOLEAN : Shutdown(1, plr, MaxAwsqOps)
    \/ \E closed \in BOOLEAN : ShutdownClientClosed(1, closed)

SpecAwsq == Init /\ [][NextAwsq]_vars

\* SpecLoad: one caller loads configurations of up to MaxLoadCfg entries
NextLoad ==
    \/ \E n \in 1..MaxLoadCfg : LoadConfigurations(1, n, MaxLoadOps)
    \/ \E e \in InputEntries : LoadEntry(1, e)
    \/ \E ok \in BOOLEAN : LoadBridgeSpawned(1, ok)
    \/ \E ok \in BOOLEAN : LoadBridgeBound(1, ok)
    \/ \E resp \in Responses : AddServerConnected(1, resp)

SpecLoad == Init /\ [][NextLoad]_vars

\* SpecC2: NumCallers callers, each calls add_server once with its own id,
\* and every connect() succeeds
AddServerOnce(t) == tasks[t].pc = "idle" /\ AddServer(t, t, NumCallers)

NextC2 ==
    \E t \in 1..NumCallers :
        \/ AddServerOnce(t)
        \/ AddServerLocked(t)
        \/ AddServerConnected(t, "result")

SpecC2 == Init /\ [][NextC2]_vars

\* SpecBridge: one bridge, its owner, its subprocess, one POST at a time
NextBridge ==
    \/ BridgeStart(MaxBridgeOps)
    \/ \E ok \in BOOLEAN : BridgeSpawned(ok)
    \/ \E ok \in BOOLEAN : BridgeBound(ok)
    \/ \E plr \in BOOLEAN : BridgeStop(plr, MaxBridgeOps)
    \/ BridgeStopWaited
    \/ BridgeStopCleaned
    \/ \E data \in Requests \cup {NotJson} : HandleRequest(1, data, MaxBridgeOps)
    \/ ReadLine(1)
    \/ ReadTimeout(1)
    \/ SubprocessAnswers
    \/ SubprocessGarbles
    \/ SubprocessExits

SpecBridge == Init /\ [][NextBridge]_vars

\* SpecEcho: a bridge that starts, in front of a subprocess that answers
\* every request line in time, and one POST at a time
NextEcho ==
    \/ BridgeStart(MaxEchoOps)
    \/ BridgeSpawned(TRUE)
    \/ BridgeBound(TRUE)
    \/ \E data \in Requests : HandleRequest(1, data, MaxEchoOps)
    \/ ReadLine(1)
    \/ SubprocessAnswers

SpecEcho == Init /\ [][NextEcho]_vars

\* SpecPosts: a started bridge whose listener gets POSTs concurrently, up
\* to NumHandlers of them in work at a time
NextPosts ==
    \/ BridgeStart(MaxPostOps)
    \/ BridgeSpawned(TRUE)
    \/ BridgeBound(TRUE)
    \/ \E h \in HandlerIds, data \in Requests : HandleRequest(h, data, MaxPostOps)
    \/ \E h \in HandlerIds : ReadLine(h)
    \/ \E h \in HandlerIds : ReadTimeout(h)
    \/ SubprocessAnswers

SpecPosts == Init /\ [][NextPosts]_vars

\* SpecClient: one MCPClient used by concurrent coroutines
NextClient ==
    \E c \in CallerIds :
        \/ ClientConnect(c, MaxClientOps)
        \/ ClientDisconnect(c, MaxClientOps)
        \/ \E op \in InputOps : ClientOperation(c, op, MaxClientOps)
        \/ ClientHealthCheck(c, MaxClientOps)
        \/ \E resp \in Responses : ClientInitializeAnswered(c, resp)
        \/ \E resp \in Responses : ClientRequestAnswered(c, resp)
        \/ \E how \in {"closed", "raised_open", "raised_closed"} :
               ClientSessionClosed(c, how)

SpecClient == Init /\ [][NextClient]_vars

\* SpecRestart: one caller of the API loads configurations and restarts
\* servers, one call at a time, while subprocesses may exit by themselves
NextRestart ==
    \/ \E n \in 1..MaxCfg : LoadConfigurations(1, n, MaxRestartOps)
    \/ \E e \in InputEntries : LoadEntry(1, e)
    \/ \E ok \in BOOLEAN : LoadBridgeSpawned(1, ok)
    \/ \E ok \in BOOLEAN : LoadBridgeBound(1, ok)
    \/ \E resp \in Responses : AddServerConnected(1, resp)
    \/ \E sid \in InputIds, plr \in BOOLEAN :
           RestartServer(1, sid, plr, MaxRestartOps)
    \/ \E plr \in BOOLEAN : ShutdownProcessWaited(1, plr)
    \/ \E plr \in BOOLEAN : ShutdownBridgeCleaned(1, plr)
    \/ \E closed \in BOOLEAN : RemoveServerClosed(1, closed)
    \/ \E b \in BridgeIds : BridgeProcessExits(b)

SpecRestart == Init /\ [][NextRestart]_vars

\* SpecExtract: extract_mcp_servers applied to configurations
NextExtract == \E config \in RawConfigs : ExtractMcpServers(config)

SpecExtract == Init /\ [][NextExtract]_vars

\* SpecLock: NumLockCallers callers add and remove servers concurrently.  The
\* event loop runs every coroutine that is ready: one the lock has been
\* handed to, and one whose awaited connect() or disconnect() has returned
\* (each of them returns: every request is bounded by the session timeout).
LockCallers == 1..NumLockCallers

NextLock ==
    \E t \in LockCallers :
        \/ \E sid \in InputIds : AddServer(t, sid, MaxLockOps)
        \/ \E sid \in InputIds : RemoveServer(t, sid, MaxLockOps)
        \/ AddServerLocked(t)
        \/ RemoveServerLocked(t)
        \/ \E resp \in Responses : AddServerConnected(t, resp)
        \/ \E closed \in BOOLEAN : RemoveServerClosed(t, closed)

FairLock ==
    \A t \in LockCallers :
        /\ WF_vars(Granted(t))
        /\ WF_vars(\E resp \in Responses : AddServerConnected(t, resp))
        /\ WF_vars(\E closed \in BOOLEAN : RemoveServerClosed(t, closed))

SpecLock == Init /\ [][NextLock]_vars /\ FairLock

\* ================================================================ claims
Returned(t, op) == tasks[t].op = op /\ tasks[t].pc = "done"

\* the client registered for sid, in a state where sid is a key
ClientRec(S, sid) == S.heap[ClientOf(S, sid)]

\* coroutine t's add_server runs its two checks in this step: it was
\* invoked and got the lock at once, or it was queued and got the lock
AddChecked(t) ==
    \/ /\ tasks[t].pc \in {"idle", "done"}
       /\ nops' = nops + 1
       /\ tasks'[t] # tasks[t]
       /\ tasks'[t].op = "add"
       /\ tasks'[t].pc \in {"add_connect", "done"}
    \/ /\ tasks[t].pc = "add_lock"
       /\ tasks[t].op = "add"
       /\ tasks'[t].pc \in {"add_connect", "done"}

\* coroutine t's add_server gets the result of connect() in this step
AddFinished(t) ==
    /\ tasks[t].pc = "add_connect"
    /\ tasks[t].op = "add"
    /\ tasks'[t].pc = "done"

\* C1: in every reachable state of a manager used concurrently through
\* add_server, remove_server, execute_tool, health_check_all,
\* get_all_resources (and shutdown), the connection map holds at most
\* MAX_MCP_CONNECTIONS entries.
C1_AtMostMax == Len(clients) <= MAX_MCP_CONNECTIONS

\* the map is full and an add_server for a new id has been turned away
C1_Witness ==
    /\ Len(clients) = MAX_MCP_CONNECTIONS
    /\ \E t \in Tasks : /\ Returned(t, "add")
                        /\ tasks[t].ret = "False"
                        /\ tasks[t].resp = "unset"
                        /\ ~HasKey(State, tasks[t].sid)

\* C2: NumCallers concurrent add_server calls with distinct ids on an empty
\* manager, every connect() succeeding: once all have returned exactly
\* MAX_MCP_CONNECTIONS returned true, the others false, and the map holds
\* exactly the ids whose call returned true.
AllReturned == \A t \in 1..NumCallers : Returned(t, "add")
ReturnedWith(r) == {t \in 1..NumCallers : tasks[t].ret = r}

C2_ThreeOfFive ==
    AllReturned =>
        /\ Cardinality(ReturnedWith("True")) = MAX_MCP_CONNECTIONS
        /\ Cardinality(ReturnedWith("False")) =
               NumCallers - MAX_MCP_CONNECTIONS
        /\ Keys(State) = {tasks[t].sid : t \in ReturnedWith("True")}
        /\ Len(clients) = MAX_MCP_CONNECTIONS

C2_Witness == AllReturned /\ Len(waiters) = 0 /\ lock = 0

\* C3: add_server for an id that is already a key returns false in the same
\* step, attempts no connect(), and leaves the map and every client as
\* they were.
C3_DuplicateRejected ==
    [][\A t \in Tasks :
          (AddChecked(t) /\ HasKey(State, tasks'[t].sid)) =>
              /\ tasks'[t].pc = "done"
              /\ tasks'[t].ret = "False"
              /\ clients' = clients
              /\ heap' = heap]_vars

\* an add_server was turned away although the map had room: its id was there
C3_Witness ==
    \E t \in Tasks : /\ Returned(t, "add")
                     /\ tasks[t].ret = "False"
                     /\ tasks[t].resp = "unset"
                     /\ HasKey(State, tasks[t].sid)
                     /\ Len(clients) < MAX_MCP_CONNECTIONS

\* C4: add_server returns true iff the id was absent, the map was below the
\* limit and connect() succeeded; then the id is a key when it returns;
\* when a check or connect() fails nothing is registered and it returns
\* false.
C4_AddResult ==
    [][\A t \in Tasks :
          /\ AddChecked(t) =>
                /\ (tasks'[t].pc = "done") <=>
                       (\/ HasKey(State, tasks'[t].sid)
                        \/ Len(clients) >= MAX_MCP_CONNECTIONS)
                /\ (tasks'[t].pc = "done") =>
                       (tasks'[t].ret = "False" /\ clients' = clients)
          /\ AddFinished(t) =>
                /\ (tasks'[t].ret = "True") <=> (tasks'[t].resp = "result")
                /\ (tasks'[t].ret = "True") =>
                       /\ Keys(State)' = Keys(State) \cup {tasks[t].sid}
                       /\ Len(clients') = Len(clients) + 1
                       /\ ClientRec(State, tasks[t].sid)'.is_connected
                /\ (tasks'[t].ret # "True") =>
                       (tasks'[t].ret = "False" /\ clients' = clients)]_vars

\* one add_server has returned true and its id is registered, another one
\* has returned false because its connect() failed
C4_Witness ==
    \E t, u \in Tasks :
        /\ Returned(t, "add") /\ tasks[t].ret = "True"
        /\ HasKey(State, tasks[t].sid)
        /\ Returned(u, "add") /\ tasks[u].ret = "False"
        /\ tasks[u].resp \in {"error", "malformed"}

\* coroutine t's remove_server looks its id up in this step
RemoveChecked(t) ==
    \/ /\ tasks[t].pc \in {"idle", "done"}
       /\ nops' = nops + 1
       /\ tasks'[t] # tasks[t]
       /\ tasks'[t].op = "remove"
       /\ tasks'[t].pc \in {"rm_close", "done"}
    \/ /\ tasks[t].pc = "rm_lock"
       /\ tasks'[t].pc \in {"rm_close", "done"}

\* coroutine t's remove_server gets back from disconnect() in this step
RemoveFinished(t) == tasks[t].pc = "rm_close" /\ tasks'[t].pc = "done"

\* every entry but the one of sid is a key afterwards, with the same client
\* in the same state, and no key is new
OthersKept(sid) ==
    /\ Keys(State)' \subseteq Keys(State)
    /\ \A k \in Keys(State) \ {sid} :
          /\ k \in Keys(State)'
          /\ ClientRec(State, k)' = ClientRec(State, k)

\* C5: remove_server of an absent id changes nothing and returns; of a
\* present id it goes through disconnect() of that client and removes that
\* key only: every other entry and every other client's state stay as
\* they were.
C5_RemoveFrame ==
    [][\A t \in Tasks :
          /\ (RemoveChecked(t) /\ ~HasKey(State, tasks'[t].sid)) =>
                /\ tasks'[t].pc = "done"
                /\ tasks'[t].ret = "None"
                /\ clients' = clients
                /\ heap' = heap
          /\ (RemoveChecked(t) /\ HasKey(State, tasks'[t].sid)) =>
                /\ OthersKept(tasks'[t].sid)
                /\ IF tasks'[t].pc = "rm_close"
                   THEN /\ clients' = clients
                        /\ heap' = heap
                        /\ tasks'[t].obj = ClientOf(State, tasks'[t].sid)
                   ELSE /\ ~ClientRec(State, tasks'[t].sid).session
                        /\ tasks'[t].ret = "None"
                        /\ Keys(State)' = Keys(State) \ {tasks'[t].sid}
          /\ RemoveFinished(t) =>
                /\ OthersKept(tasks[t].sid)
                /\ Keys(State)' = Keys(State) \ {tasks[t].sid}]_vars

\* three operations so far: an add_server of another id, an add_server that
\* returned true and a remove_server of the same id, which is gone
C5_Witness ==
    /\ nops = 3
    /\ Len(clients) = 1
    /\ \E t, u \in Tasks :
          /\ Returned(t, "remove") /\ tasks[t].ret = "None"
          /\ Returned(u, "add") /\ tasks[u].ret = "True"
          /\ tasks[u].sid = tasks[t].sid
          /\ ~HasKey(State, tasks[t].sid)

\* coroutine t's execute_tool is invoked in this step
ExecuteInvoked(t) ==
    /\ tasks[t].pc \in {"idle", "done"}
    /\ nops' = nops + 1
    /\ tasks'[t] # tasks[t]
    /\ tasks'[t].op = "execute"

\* C6: execute_tool for an id that is not a key returns
\* {success: false, error: "Server not found"} in the same step: nothing is
\* raised, no request is started and the manager is left as it was.
C6_UnknownServer ==
    [][\A t \in Tasks :
          (ExecuteInvoked(t) /\ ~HasKey(State, tasks'[t].sid)) =>
              /\ tasks'[t].pc = "done"
              /\ tasks'[t].ret = "not_found"
              /\ tasks'[t].resp = "unset"
              /\ UNCHANGED <<clients, heap, lock, waiters, stdio_bridges,
                             bridges, awsq_configs>>
              /\ \A u \in Tasks \ {t} : tasks'[u] = tasks[u]]_vars

\* an execute_tool for an unknown id has returned while servers are
\* registered
C6_Witness ==
    \E t \in Tasks : /\ Returned(t, "execute")
                     /\ tasks[t].ret = "not_found"
                     /\ ~HasKey(State, tasks[t].sid)
                     /\ Len(clients) > 0

ExecuteReturns == {"not_found", "success_result", "success_null",
                   "error_exception"}

\* C7: execute_tool never raises: whatever connect() and call_tool do and
\* whatever add_server, remove_server, shutdown do meanwhile, a completed
\* execute_tool has returned a {success, result|error} value.
C7_ExecuteNeverRaises ==
    \A t \in Tasks : Returned(t, "execute") => tasks[t].ret \in ExecuteReturns

\* call_tool raised inside execute_tool, which returned success: false,
\* while the server it talked to has been removed from the map meanwhile
C7_Witness ==
    \E t \in Tasks : /\ Returned(t, "execute")
                     /\ tasks[t].ret = "error_exception"
                     /\ ~HasKey(State, tasks[t].sid)

\* coroutine t's get_all_resources gets an answer to resources/list in this
\* step
ListAnswered(t) == tasks[t].pc = "gar_wait" /\ tasks'[t] # tasks[t]

\* the server coroutine t is waiting for
AskedServer(t) == heap[tasks[t].obj].server_id

PingAnswered(t) == tasks[t].pc = "hc_wait" /\ tasks'[t] # tasks[t]

ShutdownInvoked(t) ==
    /\ tasks[t].pc \in {"idle", "done"}
    /\ nops' = nops + 1
    /\ tasks'[t] # tasks[t]
    /\ tasks'[t].op = "shutdown"

\* coroutine t is inside the loop of shutdown that stops the bridges
StoppingBridges(L) == L.op = "shutdown" /\ L.pc \in {"sd_wait", "sd_cleanup"}

\* coroutine t's shutdown gets past the loop that stops the bridges
BridgesPassed(t) ==
    /\ ShutdownInvoked(t) \/ (StoppingBridges(tasks[t]) /\ tasks'[t] # tasks[t])
    /\ ~StoppingBridges(tasks'[t])

\* the subprocess of the bridge is not running and its listener is not up
Stopped(b) == b.process # "running" /\ b.bridge_server # "up"

LoadRuns(t) ==
    /\ tasks'[t] # tasks[t]
    /\ tasks'[t].op = "load"
    /\ \/ tasks[t].pc \in {"idle", "done"} /\ nops' = nops + 1
       \/ tasks[t].op = "load" /\ tasks[t].pc \notin {"idle", "done"}

\* the list of loaded names coroutine t had before this step
LoadedBefore(t) ==
    IF tasks[t].pc \in {"idle", "done"} THEN <<>> ELSE tasks[t].loaded

\* C12: load_awsq_configurations goes through every server entry whatever
\* happened to the entries before it (bridge start failure, capacity,
\* connect failure, duplicate id) and returns normally; a name is appended
\* to the list it returns exactly when the add_server call for that entry
\* registered the name, which is when add_server returned true.
C12_LoadProcessesAll ==
    /\ [](\A t \in Tasks :
             Returned(t, "load") =>
                 tasks[t].ret = "ok" /\ tasks[t].todo = 0)
    /\ [][\A t \in Tasks :
             LoadRuns(t) =>
                 LET new == Keys(State)' \ Keys(State) IN
                 /\ Cardinality(new) <= 1
                 /\ new = {} => tasks'[t].loaded = LoadedBefore(t)
                 /\ \A sid \in new :
                        tasks'[t].loaded = Append(LoadedBefore(t), sid)
                 /\ Keys(State) \subseteq Keys(State)'
                 /\ tasks[t].pc \notin {"idle", "done"} =>
                        /\ tasks'[t].todo \in {tasks[t].todo, tasks[t].todo - 1}
                        /\ tasks'[t].todo < tasks[t].todo =>
                               awsq_configs'[tasks'[t].sid] # "none"]_vars

\* one load of two entries has returned: the first entry failed, the second
\* one was registered and is the only name in the returned list
C12_Witness ==
    \E t \in Tasks :
        /\ Returned(t, "load") /\ nops = 1
        /\ tasks[t].loaded = <<2>>
        /\ awsq_configs[1] # "none" /\ ~HasKey(State, 1)
        /\ HasKey(State, 2)

\* C13: whenever a server id is a key of the bridge map and of the
\* connection map, the endpoint of its connection is the listener URL of
\* the bridge the bridge map holds for that id.
C13_EndpointIsBridge ==
    \A i \in 1..Len(stdio_bridges) :
        HasKey(State, stdio_bridges[i].name) =>
            ClientRec(State, stdio_bridges[i].name).endpoint =
                BridgeUrl(stdio_bridges[i].br)

\* C14: STDIOBridge.start is atomic: a bridge whose subprocess runs while
\* its listener is not up is a bridge start() is still working on; once
\* start() has raised after the spawn, the subprocess has been terminated.
C14_StartAtomic ==
    \A b \in BridgeIds :
        (bridges[b].process = "running" /\ bridges[b].bridge_server # "up") =>
            \E t \in Tasks : tasks[t].br = b /\ tasks[t].pc = "ld_bind"

\* the owner calls stop() in this step, on a bridge that was never started
\* or right after a stop() that returned
StopsAgain ==
    /\ owner.pc \in {"idle", "done"}
    /\ nops' = nops + 1
    /\ owner'.op \in {"stop", "stop_again"}
    /\ owner' # owner \/ owner.op \in {"stop", "stop_again"}
    /\ \/ bridge.process = "none" /\ bridge.bridge_server = "none"
       \/ owner.pc = "done" /\ owner.op \in {"stop", "stop_again"} /\
          owner.ret = "None"

\* C15: STDIOBridge.stop is idempotent: on a bridge that was never started,
\* and on one that a stop() that returned has already stopped, it returns
\* at once without an error, sends no terminate signal and tears no
\* listener down.
C15_StopIdempotent ==
    [][StopsAgain => /\ owner'.pc = "done"
                     /\ owner'.ret = "None"
                     /\ bridge' = bridge]_vars

\* C16: a request whose readline() timed out is answered with HTTP 504 and
\* error code -32000, the timeout leaves the subprocess as it is, and a
\* request answered with HTTP 200, after a timeout as at any other time,
\* gets the subprocess's answer to that very request.
C16_TimeoutThenUsable ==
    /\ [](\A h \in HandlerIds :
             handlers[h].pc = "responded" =>
                 /\ handlers[h].status = 504 =>
                        handlers[h].body = ErrorObject("-32000")
                 /\ handlers[h].status = 200 =>
                        handlers[h].body =
                            Result(handlers[h].req.id, handlers[h].req.val))
    /\ [][\A h \in HandlerIds :
             (handlers[h].pc = "read_wait" /\ handlers'[h].status = 504) =>
                 bridge' = bridge]_vars

\* C17: round trip through the bridge, in front of a subprocess that
\* answers every request line with the line {id: the same id, result: the
\* same params}: a POST of a JSON-RPC request, alone on the bridge, is
\* answered with HTTP 200 and exactly that object, after exactly one line
\* was written to stdin and one line read from stdout, and no line is left
\* on either pipe.
C17_RoundTrip ==
    \A h \in HandlerIds :
        handlers[h].pc = "responded" =>
            /\ handlers[h].status = 200
            /\ handlers[h].body =
                   Result(handlers[h].req.id, handlers[h].req.val)
            /\ handlers[h].wrote = 1 /\ handlers[h].read = 1
            /\ stdin = <<>> /\ stdout = <<>>

\* the third POST to the bridge has got its answer
C17_Witness ==
    /\ nops = 4
    /\ handlers[1].pc = "responded"
    /\ handlers[1].req = Request(1, "a")
    /\ handlers[1].body = Result(1, "a")

\* C18: the connected flag of a client goes from false to true only in a
\* step in which a coroutine that is inside connect() (called directly or
\* by an operation that connects lazily) gets a response with a result to
\* its initialize request; the own requests of list_*, read_resource,
\* call_tool, get_prompt and health_check, and disconnect(), never set it.
C18_ConnectSetsFlag ==
    [][(~client.is_connected /\ client'.is_connected) =>
           \E c \in CallerIds : ClientInitializeAnswered(c, "result")]_vars

\* the only call made so far is an operation that connects lazily: it has
\* built the initialize request and its own request, and the client is
\* connected
C18_Witness ==
    /\ nops = 1
    /\ client.is_connected
    /\ \E c \in CallerIds :
           /\ calls[c].op \in LazyOps
           /\ calls[c].pc = "req_wait"
           /\ calls[c].id = 2

\* the own request of an operation on a connected client fails in this
\* step: timeout, exception or non-200 status, so _send_request returns None
RequestFails(c) ==
    /\ client.is_connected
    /\ ClientRequestAnswered(c, "none")

\* C19: when a request of a connected client fails in transport, the
\* client's connected flag is false afterwards.
C19_ErrorResetsFlag ==
    [][\A c \in CallerIds : RequestFails(c) => ~client'.is_connected]_vars

InFlight(c) == calls[c].pc \in {"init_wait", "req_wait"}

\* C20: the requests a client builds carry the ids 1, 2, 3, ... in the
\* order they are built, the counter is the number of requests built so
\* far, and two requests that are in flight at the same time never carry
\* the same id.
C20_RequestIds ==
    /\ \A i \in 1..Len(outgoing) : outgoing[i] = i
    /\ client.request_id = Len(outgoing)
    /\ \A c, d \in CallerIds :
           (c # d /\ InFlight(c) /\ InFlight(d)) => calls[c].id # calls[d].id

\* the client was connected once (it holds capabilities) and has been
\* disconnected since; request 2, built before that, is still in flight,
\* and request 3 is the initialize of a new connect() on a new session
C20_Witness ==
    /\ client.capabilities
    /\ ~client.is_connected
    /\ client.session = "open"
    /\ Len(outgoing) = 3
    /\ \E c, d \in CallerIds :
           /\ calls[c].pc = "req_wait" /\ calls[c].id = 2
           /\ calls[d].op = "connect" /\ calls[d].pc = "init_wait"
           /\ calls[d].id = 3

\* the failures of one server's request: no answer (timeout, transport
\* error, non-200 status) and an answer without result (an error response)
Failures == {"none", "error"}

\* coroutine t gets a failure of the server it asked in this step, in
\* get_all_resources, in health_check_all, or in execute_tool (its lazy
\* connect or its tools/call)
FailureAnswered(t) ==
    \E resp \in Failures :
        \/ ListResourcesAnswered(t, resp)
        \/ HealthCheckAnswered(t, resp)
        \/ CallToolAnswered(t, resp)
        \/ ExecuteToolConnected(t, resp)
        \/ CallToolConnected(t, resp)

WellFormed(config) ==
    {i \in DOMAIN config.servers : config.servers[i].value.kind = "object"}

\* C24: extract_mcp_servers returns exactly one descriptor per well-formed
\* entry of mcpServers, under the entry's name, whatever the order of the
\* entries and wherever the malformed ones stand (count = total minus
\* malformed), and a descriptor's transport is HTTP iff the entry's type
\* member equals "http", otherwise STDIO.
C24_ExtractWellFormed ==
    /\ Len(mcp_servers) = Cardinality(WellFormed(mcp_config))
    /\ \A i \in WellFormed(mcp_config) :
           \E k \in DOMAIN mcp_servers :
               /\ mcp_servers[k].name = mcp_config.servers[i].name
               /\ mcp_servers[k].transport_type = "http" <=>
                      mcp_config.servers[i].value.type = "http"
               /\ mcp_servers[k].transport_type \in Transports
    /\ \A k \in DOMAIN mcp_servers :
           \E i \in WellFormed(mcp_config) :
               mcp_servers[k].name = mcp_config.servers[i].name

\* a malformed entry stands before a well-formed one whose type is not
\* "http" in any spelling the code accepts, and one descriptor came out
C24_Witness ==
    /\ Len(mcp_config.servers) = 2
    /\ mcp_config.servers[1].value.kind = "null"
    /\ mcp_config.servers[2].value.type = "HTTP"
    /\ Len(mcp_servers) = 1
    /\ mcp_servers[1].transport_type = "stdio"

\* C22: a restart of a loaded server (one with a stored descriptor), STDIO
\* or HTTP, goes through to re-adding the server, so it returns the result
\* of add_server; when that result is success the server is registered
\* and, for STDIO, its connection's endpoint is the URL of the bridge the
\* bridge map now holds, and no other subprocess started for that server
\* is still running.
C22_RestartReprovisions ==
    \A t \in Tasks :
        Returned(t, "restart") /\ awsq_configs[tasks[t].sid] # "none" =>
            LET sid == tasks[t].sid IN
            /\ tasks[t].ret \in {"True", "False"}
            /\ tasks[t].ret = "True" =>
                   /\ HasKey(State, sid)
                   /\ awsq_configs[sid] = "stdio" =>
                          /\ HasBridge(State, sid)
                          /\ ClientRec(State, sid).endpoint =
                                 BridgeUrl(stdio_bridges[BridgeIndex(State, sid)].br)
                          /\ \A b \in BridgeIds :
                                 bridges[b].name = sid /\
                                 bridges[b].process = "running" =>
                                     b = stdio_bridges[BridgeIndex(State, sid)].br

\* C23: when one load processes two entries with the same server name, the
\* later entry wins for the stored descriptor and for the registered
\* connection alike: once the load has returned (normally), every
\* registered server's connection is the one its stored descriptor
\* describes, the URL for an HTTP descriptor, the listener of the bridge
\* started for it for a STDIO descriptor.
C23_LaterEntryWins ==
    \A t \in Tasks :
        Returned(t, "load") /\ nops = 1 =>
            /\ tasks[t].ret = "ok"
            /\ \A sid \in Keys(State) :
                   /\ awsq_configs[sid] = "http" =>
                          ClientRec(State, sid).endpoint = UrlOf(sid)
                   /\ awsq_configs[sid] = "stdio" /\ HasBridge(State, sid) =>
                          ClientRec(State, sid).endpoint =
                              BridgeUrl(stdio_bridges[BridgeIndex(State, sid)].br)

\* the step in which shutdown of coroutine t reaches self.clients.clear()
ShutdownClears(t) ==
    /\ \/ \E plr \in BOOLEAN : Shutdown(t, plr, MaxOps)
       \/ \E closed \in BOOLEAN : ShutdownClientClosed(t, closed)
    /\ tasks'[t].pc = "done"
    /\ tasks'[t].ret = "None"

\* C25: the connection map is only mutated under the manager's lock: in no
\* step does shutdown clear the map while a coroutine is inside the
\* critical section of add_server or remove_server (the lock is held).
C25_MutationsUnderLock ==
    [][\A t \in Tasks : ShutdownClears(t) => lock = 0]_vars

\* C26: get_all_resources, health_check_all and shutdown iterate over a
\* snapshot of the connection map, so none of them ever ends with the
\* fault of an iterator whose dict changed size, whatever add_server and
\* remove_server calls completed while it was suspended.
C26_SnapshotIteration ==
    \A t \in Tasks :
        tasks[t].pc = "done" /\ tasks[t].op \in {"resources", "health", "shutdown"}
            => tasks[t].ret # "raise_RuntimeError"

\* C27: a client has at most one request in flight: no two coroutines are
\* suspended in session.post on the same client at the same time.
C27_OneInFlight ==
    \A c, d \in CallerIds : InFlight(c) /\ InFlight(d) => c = d

\* C28: a bridge handles one request at a time: a request's line is
\* written to the subprocess's stdin only when no other request is waiting
\* for its response line.
C28_OneRequestAtATime ==
    [][\A h \in HandlerIds :
          /\ \E data \in Requests : HandleRequest(h, data, MaxPostOps)
          /\ Len(stdin') > Len(stdin)
          => \A g \in HandlerIds : handlers[g].pc # "read_wait"]_vars

\* C29: the line the subprocess writes for a request that has timed out is
\* discarded: a request that arrives while no other request is in work is
\* never answered with HTTP 200 from a line that was on the subprocess's
\* stdout before its own line was written.
C29_LateLineDiscarded ==
    [][\A h \in HandlerIds :
          /\ \E data \in Requests : HandleRequest(h, data, MaxBridgeOps)
          /\ \A g \in HandlerIds : handlers[g].pc # "read_wait"
          => handlers'[h].status # 200]_vars

\* the step in which the request of handler h fails otherwise than by a
\* timeout: its body is not JSON, the subprocess it writes to has exited,
\* or the line it reads is empty (end of file) or not JSON
RequestFailure(h) ==
    \/ HandleRequest(h, NotJson, MaxBridgeOps)
    \/ /\ bridge.process = "exited"
       /\ \E data \in Requests : HandleRequest(h, data, MaxBridgeOps)
    \/ /\ stdout = <<>> \/ Head(stdout).kind # "json"
       /\ ReadLine(h)

\* C30: a request that fails otherwise than by a timeout is answered with
\* HTTP 500 and an error object of code -32603, and neither such a failure
\* nor a timeout touches the bridge: the subprocess stays the one start()
\* spawned, in the state it was in.
C30_FailureIs500 ==
    [][\A h \in HandlerIds :
          /\ RequestFailure(h) =>
                 /\ handlers'[h].pc = "responded"
                 /\ handlers'[h].status = 500
                 /\ handlers'[h].body = ErrorObject("-32603")
                 /\ bridge' = bridge
          /\ ReadTimeout(h) => bridge' = bridge]_vars

\* a request written to a subprocess that had exited has been answered 500
C30_Witness ==
    /\ bridge.process = "exited"
    /\ bridge.bridge_server = "up"
    /\ handlers[1].pc = "responded"
    /\ handlers[1].req.kind = "request"
    /\ handlers[1].wrote = 0
    /\ handlers[1].status = 500
    /\ stdout # <<>>

\* ---------------------------------------------------------------- C31
\* C31: no operation of the client propagates an exception: every call of
\* connect, disconnect, list_tools, call_tool and health_check that has
\* returned, in every state of the client (never connected, connect
\* failed, disconnected, session closed under it), returned a value
\* (True/False, a list, a result or None) and did not raise.
C31_NoClientException ==
    \A c \in CallerIds :
        calls[c].pc = "done" => calls[c].ret # "raise_TypeError"

\* ---------------------------------------------------------------- C32
\* C32: health_check returns true iff its ping got a response that is not
\* an error: in every step in which the ping of a health_check comes back
\* as a result, as a JSON-RPC error object or not at all (timeout,
\* exception, non-200), the call returns True for the result and False
\* for the error object and for no response.
C32_HealthIffNoError ==
    [][\A c \in CallerIds : \A resp \in {"result", "error", "none"} :
           (calls[c].op = "health_check" /\ ClientRequestAnswered(c, resp))
               => /\ calls'[c].pc = "done"
                  /\ (calls'[c].ret = "True") <=> (resp = "result")]_vars

\* ---------------------------------------------------------------- C33
\* C33: no retry and no reconnect of the client's own: the step in which
\* the request of an operation comes back (with a result, an error, or
\* not at all after the timeout) builds no further request and ends the
\* invocation; the step in which initialize comes back builds at most the
\* one request of the operation that connected lazily, none for connect()
\* itself, and never a second initialize; closing the session builds no
\* request.  Requests are built only in steps of invoked operations: one
\* invocation builds at most initialize and its own request.
C33_NoRetry ==
    [][/\ Len(outgoing') <= Len(outgoing) + 2
       /\ \A c \in CallerIds :
           /\ \A resp \in Responses :
                  ClientRequestAnswered(c, resp) =>
                      /\ outgoing' = outgoing
                      /\ calls'[c].pc = "done"
           /\ \A resp \in Responses :
                  ClientInitializeAnswered(c, resp) =>
                      /\ Len(outgoing') <= Len(outgoing) + 1
                      /\ calls[c].op = "connect" => outgoing' = outgoing
                      /\ calls'[c].pc \in {"req_wait", "done"}
           /\ \A how \in {"closed", "raised_open", "raised_closed"} :
                  ClientSessionClosed(c, how) => outgoing' = outgoing]_vars

\* the only call made so far, list_tools on a client that was not
\* connected, has returned the empty list: initialize was answered and the
\* request of the operation was not; two requests were built
C33_Witness ==
    /\ nops = 1
    /\ calls[1].pc = "done"
    /\ calls[1].ret = "empty"
    /\ client.is_connected
    /\ outgoing = <<1, 2>>

\* ---------------------------------------------------------------- C34
\* C34: execute_tool on a registered client that is not connected makes
\* exactly one reconnect attempt before tools/call: when the initialize
\* request of that attempt comes back, whatever the answer, the call goes
\* on to tools/call (it waits for its response, or has returned) and does
\* not send initialize a second time.
C34_OneReconnect ==
    [][\A t \in Tasks : \A resp \in Responses :
           ExecuteToolConnected(t, resp) =>
               tasks'[t].pc \in {"ct_wait", "done"}]_vars

\* ---------------------------------------------------------------- C35
\* C35: in the step in which a call of connect() returns, the connected
\* flag equals the value returned, whatever the flag was before: true
\* after True, false after False.
C35_FlagIsReturnValue ==
    [][\A c \in CallerIds :
           (/\ \/ ClientConnect(c, MaxClientOps)
               \/ /\ calls[c].op = "connect"
                  /\ \E resp \in Responses : ClientInitializeAnswered(c, resp)
            /\ calls'[c].pc = "done")
               => (client'.is_connected <=> calls'[c].ret = "True")]_vars

\* ---------------------------------------------------------------- C36
\* C36: execute_tool returns success: true whenever call_tool returned
\* without raising: with the result when tools/call was answered with
\* one, with a null result when it was not answered (timeout, transport
\* failure, non-200) or answered with an error object, also after a
\* reconnect attempt that failed; it returns success: false only for an
\* id that is not registered (in the step of the call) and when call_tool
\* raised.
ExecuteSuccess == {"success_result", "success_null"}

C36_SuccessUnlessRaised ==
    [][\A t \in Tasks :
           /\ \A resp \in Responses :
                  CallToolAnswered(t, resp) =>
                      /\ tasks'[t].pc = "done"
                      /\ tasks'[t].ret =
                             IF resp = "malformed" THEN "error_exception"
                             ELSE IF resp = "result" THEN "success_result"
                             ELSE "success_null"
           /\ \A resp \in Responses :
                  (ExecuteToolConnected(t, resp) \/ CallToolConnected(t, resp))
                      => (tasks'[t].pc = "done"
                              => tasks'[t].ret \in ExecuteSuccess)
           /\ (ExecuteInvoked(t) /\ tasks'[t].pc = "done") =>
                  IF HasKey(State, tasks'[t].sid)
                  THEN tasks'[t].ret \in ExecuteSuccess
                  ELSE tasks'[t].ret = "not_found"]_vars

\* an execute_tool has returned success with a null result for a server
\* that is registered, has a session again after having been disconnected
\* and is still not connected: the reconnect attempts failed and tools/call
\* was not answered
C36_Witness ==
    \E t \in Tasks : /\ Returned(t, "execute")
                     /\ tasks[t].ret = "success_null"
                     /\ tasks[t].resp = "none"
                     /\ HasKey(State, tasks[t].sid)
                     /\ ClientRec(State, tasks[t].sid).session
                     /\ ~ClientRec(State, tasks[t].sid).is_connected

\* ---------------------------------------------------------------- C37
\* C37: no subprocess of a bridge is leaked: whenever a shutdown() that
\* followed any sequence of load_awsq_configurations calls has returned,
\* no STDIOBridge has a subprocess that is still running or a listener
\* that is still up.
C37_NoBridgeLeaked ==
    \A t \in Tasks :
        (Returned(t, "shutdown") /\ tasks[t].ret = "None") =>
            \A b \in BridgeIds : /\ bridges[b].process # "running"
                                 /\ bridges[b].bridge_server # "up"

\* ---------------------------------------------------------------- C38
\* C38: whenever load_awsq_configurations has returned and nothing else is
\* running, every key of the bridge map is a key of the connection map (a
\* STDIO server whose add_server was rejected has no bridge recorded), so
\* the bridge map is never larger than the connection limit.
C38_BridgesAreConnections ==
    (\A t \in Tasks : tasks[t].pc \in {"idle", "done"}) =>
        /\ \A i \in 1..Len(stdio_bridges) :
               HasKey(State, stdio_bridges[i].name)
        /\ Len(stdio_bridges) <= MAX_MCP_CONNECTIONS

\* ---------------------------------------------------------------- C39
\* C39: the manager lock is released on every exit path of add_server
\* and remove_server: whenever no call is running the lock is free and
\* nobody is queued on it, and, every connect() and disconnect() returning,
\* every add_server and remove_server call that waits for the lock
\* eventually gets it and returns.
LockWaiting(t) == tasks[t].pc \in {"add_lock", "rm_lock"}

C39_LockAlwaysReleased ==
    /\ []((\A t \in LockCallers : tasks[t].pc \in {"idle", "done"})
              => (lock = 0 /\ waiters = <<>>))
    /\ \A t \in LockCallers : LockWaiting(t) ~> tasks[t].pc = "done"

\* a remove_server call is queued on the lock that an add_server call
\* holds while suspended in connect()
C39_Witness ==
    \E t, u \in LockCallers : /\ tasks[t].pc = "rm_lock"
                              /\ tasks[u].pc = "add_connect"
                              /\ lock = u
                              /\ waiters = <<t>>

====
